---- MODULE Spec2Model ----
(***************************************************************************)
(* ShopSight dashboard: the Home page (search, product selection and the   *)
(* four per-product analytics fetches) and the AIAgent component (agent    *)
(* query with response normalisation, smart suggestions).                  *)
(*                                                                         *)
(* Every action is one macrotask of the JavaScript event loop: a user      *)
(* event handler up to its first await, or the continuation of an async    *)
(* function when the promise it awaits settles.  React state set inside    *)
(* one such step is committed together.                                    *)
(***************************************************************************)
EXTENDS Integers, Sequences, FiniteSets, TLC

VARIABLES
    \* ---- Home (page.tsx) ----
    searchResults,    \* useState<Product[]>([]): sequence of product ids
    selectedProduct,  \* useState<Product | null>(null): a product id or NoProduct
    salesData,        \* useState<SalesData | null>(null)
    forecast,         \* useState<Forecast | null>(null)
    segments,         \* useState<CustomerSegment[]>([])
    insights,         \* useState<string>('')
    loading,          \* useState(false)
    runs,             \* the invocations of handleProductSelect, by run number
    nRuns,            \* number of invocations of handleProductSelect so far
    searches,         \* the invocations of handleSearch still awaiting their fetch
    nSearches,        \* number of invocations of handleSearch so far
    searchOutcome,    \* history: how the search that settled last ended
    \* ---- AIAgent (AIAgent.tsx) ----
    productId,        \* the productId prop (NoProduct: not mounted)
    agentQuery,       \* useState(''): the text of the chat input
    agentResponse,    \* useState<AgentResponse | null>(null)
    suggestions,      \* useState<SuggestionsResponse | null>(null)
    agentLoading,     \* useState(false)
    activeTab,        \* useState<'chat' | 'suggestions'>('chat')
    analyzeReqs,      \* the /agent/analyze requests in flight
    suggestReqs,      \* the /agent/suggestions requests in flight
    lastAnalyze,      \* history: how the analyze request that settled last ended
    calls             \* history: number of network requests issued, per endpoint

homeVars == <<searchResults, selectedProduct, salesData, forecast,
              segments, insights, loading, runs, nRuns, searches,
              nSearches, searchOutcome>>

agentVars == <<productId, agentQuery, agentResponse, suggestions, agentLoading,
               activeTab, analyzeReqs, suggestReqs, lastAnalyze>>

vars == <<homeVars, agentVars, calls>>

\* ------------------------------------------------------------------ bounds

MaxRuns == 2        \* product selections in one behaviour
MaxSearches == 2    \* searches in one behaviour
MaxQueries == 2     \* agent queries in one behaviour
MaxSuggestLoads == 2 \* suggestions loads in one behaviour
MaxSearchRounds == 3 \* searches in one behaviour of SpecSearch

\* ---------------------------------------------------------------- products

NIKE == "nike_air_max_270"
ADIDAS == "adidas_ultraboost_22"
NoProduct == "null"
Products == {NIKE, ADIDAS}

\* The fallback list of handleSearch's catch block.
mockResults == <<NIKE, ADIDAS>>

\* Product lists the backend's /search may answer with.
BackendResults == {<<>>, <<NIKE>>, <<ADIDAS, NIKE>>}

Endpoints == {"sales", "forecast", "segments", "insights"}
AllEndpoints == Endpoints \cup {"search", "analyze", "suggestions"}

Range(s) == {s[i] : i \in 1..Len(s)}

\* -------------------------------------------------------------- JSON values

\* Text is a sequence of characters.
Digits == <<"0", "1", "2", "3", "4", "5", "6", "7", "8", "9">>

RECURSIVE NatText(_)
NatText(n) ==
    IF n < 10 THEN <<Digits[n + 1]>>
    ELSE NatText(n \div 10) \o <<Digits[(n % 10) + 1]>>

\* The decimal text of an integer, as Number.prototype.toString gives it.
NumText(n) == IF n < 0 THEN <<"-">> \o NatText(-n) ELSE NatText(n)

\* A JavaScript value as JSON.parse can produce it, or undefined.
\*   t  its type: "undefined", "null", "boolean", "number", "string", "array",
\*      "object"
\*   b, n, s  the boolean, the number, the text
\*   a  the elements of an array (values that are no arrays)
Val(t, b, n, s, a) == [t |-> t, b |-> b, n |-> n, s |-> s, a |-> a]
Undefined == Val("undefined", FALSE, 0, <<>>, <<>>)
Null == Val("null", FALSE, 0, <<>>, <<>>)
Bool(b) == Val("boolean", b, 0, <<>>, <<>>)
Num(n) == Val("number", FALSE, n, <<>>, <<>>)
Str(s) == Val("string", FALSE, 0, s, <<>>)
Arr(a) == Val("array", FALSE, 0, <<>>, a)
PlainObject == Val("object", FALSE, 0, <<>>, <<>>)

\* String(x) for a value that is no array.
ScalarText(v) ==
    CASE v.t = "string" -> v.s
      [] v.t = "number" -> NumText(v.n)
      [] v.t = "boolean" ->
            IF v.b THEN <<"t", "r", "u", "e">> ELSE <<"f", "a", "l", "s", "e">>
      [] v.t = "null" -> <<"n", "u", "l", "l">>
      [] v.t = "undefined" -> <<"u", "n", "d", "e", "f", "i", "n", "e", "d">>
      [] OTHER -> <<"[", "o", "b", "j", "e", "c", "t", " ", "O", "b", "j", "e",
                    "c", "t", "]">>

\* Array.prototype.join: null and undefined elements give the empty text.
RECURSIVE JoinText(_)
JoinText(a) ==
    IF a = <<>> THEN <<>>
    ELSE LET x == IF a[1].t \in {"null", "undefined"} THEN <<>>
                  ELSE ScalarText(a[1])
         IN  IF Len(a) = 1 THEN x ELSE x \o <<",">> \o JoinText(Tail(a))

\* String(x).
ToText(v) == IF v.t = "array" THEN JoinText(v.a) ELSE ScalarText(v)

\* ToBoolean(x): the test of `x ? ... : ...` and of `!x`.
Truthy(v) ==
    CASE v.t = "string" -> v.s # <<>>
      [] v.t = "number" -> v.n # 0
      [] v.t = "boolean" -> v.b
      [] v.t \in {"null", "undefined"} -> FALSE
      [] OTHER -> TRUE

\* x ?? d
Coalesce(v, d) == IF v.t \in {"null", "undefined"} THEN d ELSE v

\* String.prototype.trim on text whose only white space is " ".
RECURSIVE TrimLeft(_)
TrimLeft(s) == IF s # <<>> /\ s[1] = " " THEN TrimLeft(Tail(s)) ELSE s

RECURSIVE TrimRight(_)
TrimRight(s) ==
    IF s # <<>> /\ s[Len(s)] = " " THEN TrimRight(SubSeq(s, 1, Len(s) - 1)) ELSE s

Trim(s) == TrimRight(TrimLeft(s))

\* A decoded response body: a value, and for an object the values of the
\* properties the code reads (an absent property reads undefined).
Body(v, props) == [v |-> v, props |-> props]

\* data.name; reading a property of null throws a TypeError.
Throws(data) == data.v.t = "null"
Get(data, name) ==
    IF data.v.t = "object" THEN data.props[name] ELSE Undefined

\* ------------------------------------------------------------- view fields

\* The value of one analytics state variable, with the product and the run
\* whose response it was taken from (history).
\*   "empty"     the initial value (null, [] or '')
\*   "data"      the endpoint's data for the product
\*   "errbody"   the JSON body of a non-2xx response
\*   "undefined" a property read off such a body
EmptyField == [k |-> "empty", product |-> NoProduct, run |-> 0]
Field(k, p, r) == [k |-> k, product |-> p, run |-> r]

\* What one of the four state setters is handed, given the HTTP outcome of its
\* endpoint: salesData and forecast take the decoded body itself, segments and
\* insights take a property of it.
WholeBody(out, p, r) ==
    IF out = "ok" THEN Field("data", p, r) ELSE Field("errbody", p, r)

PropertyOf(out, p, r) ==
    IF out = "ok" THEN Field("data", p, r) ELSE Field("undefined", p, r)

\* --------------------------------------------------------------------- runs

\* One invocation of handleProductSelect.
\*   st        "unused"; "fetching" (awaiting the first Promise.all); "decoding"
\*             (awaiting the second); "done" (the finally block has run)
\*   product   the product the run fetches for (while it is live)
\*   awaiting  how many of its four fetches have not yielded a Response yet.
\*             Promise.all does not tell which of its promises fulfils first,
\*             so a run keeps the number outstanding, not their names.
\*   arrived   history: the responses in their order of arrival, each with
\*             its endpoint and its kind; written by FetchArrive only, and
\*             kept by a finished run until the next selection.
RunIds == 1..MaxRuns
IdleRun == [st |-> "unused", product |-> NoProduct, awaiting |-> 0, arrived |-> <<>>]
DoneRun == [st |-> "done", product |-> NoProduct, awaiting |-> 0, arrived |-> <<>>]
LiveRuns == {r \in RunIds : runs[r].st \in {"fetching", "decoding"}}

InitHome ==
    /\ searchResults = <<>>
    /\ selectedProduct = NoProduct
    /\ salesData = EmptyField
    /\ forecast = EmptyField
    /\ segments = EmptyField
    /\ insights = EmptyField
    /\ loading = FALSE
    /\ runs = [r \in RunIds |-> IdleRun]
    /\ nRuns = 0
    /\ searches = {}
    /\ nSearches = 0
    /\ searchOutcome = "none"
    /\ calls = [e \in AllEndpoints |-> 0]

\* The AIAgent component's state at mount.
NoResponse == [k |-> "null"]
NoSuggestions == [k |-> "null"]
NothingSettled == [req |-> 0, kind |-> "none", body |-> Body(Undefined, <<>>)]

InitAgentState ==
    /\ agentQuery = <<>>
    /\ agentResponse = NoResponse
    /\ suggestions = NoSuggestions
    /\ agentLoading = FALSE
    /\ activeTab = "chat"
    /\ analyzeReqs = {}
    /\ suggestReqs = {}
    /\ lastAnalyze = NothingSettled

\* The page after construction: nothing selected, so no AIAgent is mounted.
Init ==
    /\ InitHome
    /\ productId = NoProduct
    /\ InitAgentState

\* ------------------------------------------------------------------ search

\* SearchBar: the input is disabled while loading, and handleSubmit calls
\* onSearch only for a query that is not blank.
SearchEnabled == ~loading

\* handleSearch up to its await: setLoading(true), one POST /search; at most
\* `limit` searches are made in one behaviour.
HandleSearchWithin(limit) ==
    /\ SearchEnabled
    /\ nSearches < limit
    /\ nSearches' = nSearches + 1
    /\ searches' = searches \cup {nSearches + 1}
    /\ loading' = TRUE
    /\ calls' = [calls EXCEPT !["search"] = @ + 1]
    /\ UNCHANGED agentVars
    /\ UNCHANGED <<searchResults, selectedProduct, salesData, forecast,
                   segments, insights, runs, nRuns, searchOutcome>>

HandleSearch == HandleSearchWithin(MaxSearches)

\* How a /search call can end.
\*   "ok"       2xx and a JSON product list
\*   "http"     a non-2xx response (the code throws)
\*   "network"  fetch rejects
\*   "nojson"   2xx whose body is not JSON (response.json() rejects)
SearchOutcomes == {"ok", "http", "network", "nojson"}

\* Mutant: the catch block keeps what the failed try block left.
SearchResultsAfter_NoFallback(outcome, results) ==
    IF outcome = "ok" THEN results ELSE <<>>

\* The list handed to setSearchResults: the try block's results, or the catch
\* block's mockResults.
SearchResultsAfter(outcome, results) ==
    IF outcome = "ok" THEN results ELSE mockResults

\* The continuation of handleSearch once its fetch has settled.
SearchSettle(s, outcome, results) ==
    /\ s \in searches
    /\ searches' = searches \ {s}
    /\ searchResults' = SearchResultsAfter(outcome, results)
    /\ searchOutcome' = outcome
    /\ loading' = FALSE
    /\ UNCHANGED agentVars
    /\ UNCHANGED <<selectedProduct, salesData, forecast, segments, insights,
                   runs, nRuns, nSearches, calls>>

\* --------------------------------------------------------- product selection

\* The requests handleProductSelect starts inside its first Promise.all.
FetchesOf(p) == Endpoints

\* ProductCard onClick -> handleProductSelect(product), up to the first await:
\* setSelectedProduct, setLoading(true), and the four fetches are started.
\* (The history kept of the runs that have finished is dropped.)
HandleProductSelect(p) ==
    /\ p \in Range(searchResults)
    /\ nRuns < MaxRuns
    /\ nRuns' = nRuns + 1
    /\ selectedProduct' = p
    /\ loading' = TRUE
    /\ runs' = [r \in RunIds |->
                  IF r = nRuns + 1
                  THEN [st |-> "fetching", product |-> p,
                        awaiting |-> Cardinality(FetchesOf(p)),
                        arrived |-> <<>>]
                  ELSE IF runs[r].st = "done" THEN DoneRun ELSE runs[r]]
    /\ calls' = [e \in AllEndpoints |->
                   IF e \in FetchesOf(p) THEN calls[e] + 1 ELSE calls[e]]
    /\ UNCHANGED agentVars
    /\ UNCHANGED <<searchResults, salesData, forecast, segments,
                   insights, searches, nSearches, searchOutcome>>

\* Mutant: the catch block without the finally block.
RunCaught_NoFinally(r) ==
    /\ runs' = [runs EXCEPT ![r] = DoneRun]
    /\ UNCHANGED agentVars
    /\ UNCHANGED <<searchResults, selectedProduct, salesData,
                   forecast, segments, insights, loading, nRuns, searches,
                   nSearches, searchOutcome, calls>>

\* The catch and finally blocks of handleProductSelect: nothing is committed.
RunCaught(r) ==
    /\ runs' = [runs EXCEPT ![r] = DoneRun]
    /\ loading' = FALSE
    /\ UNCHANGED agentVars
    /\ UNCHANGED <<searchResults, selectedProduct, salesData,
                   forecast, segments, insights, nRuns, searches,
                   nSearches, searchOutcome, calls>>

\* One more of the four fetches of run r yields a Response (of any status).
\* When it is the last, the first Promise.all fulfils and the four json()
\* calls start.
FetchRespond(r) ==
    /\ runs[r].st = "fetching"
    /\ runs[r].awaiting > 0
    /\ runs' = [runs EXCEPT ![r].awaiting = @ - 1,
                            ![r].st = IF runs[r].awaiting = 1
                                      THEN "decoding" ELSE "fetching"]
    /\ UNCHANGED agentVars
    /\ UNCHANGED <<searchResults, selectedProduct, salesData,
                   forecast, segments, insights, loading, nRuns, searches,
                   nSearches, searchOutcome, calls>>

\* One of the outstanding fetches of run r rejects (transport failure):
\* Promise.all rejects at once and the run goes to its catch block, whatever
\* became or becomes of the other three.
FetchFail(r) ==
    /\ runs[r].st = "fetching"
    /\ runs[r].awaiting > 0
    /\ RunCaught(r)

\* What a response whose body decodes can be: the code reads neither ok nor
\* status, so the status only shows in the body it decodes.
\*   "ok"      2xx, the endpoint's JSON
\*   "http"    non-2xx with a JSON error body
ResponseKinds == {"ok", "http"}

\* Mutant: a field is set only when its own response was 2xx, and is left as
\* it was otherwise.
CommitRun_PerField(r, outs) ==
    /\ salesData' = IF outs["sales"] = "ok"
                    THEN WholeBody(outs["sales"], runs[r].product, r)
                    ELSE salesData
    /\ forecast' = IF outs["forecast"] = "ok"
                   THEN WholeBody(outs["forecast"], runs[r].product, r)
                   ELSE forecast
    /\ segments' = IF outs["segments"] = "ok"
                   THEN PropertyOf(outs["segments"], runs[r].product, r)
                   ELSE segments
    /\ insights' = IF outs["insights"] = "ok"
                   THEN PropertyOf(outs["insights"], runs[r].product, r)
                   ELSE insights

\* The four setters after the second Promise.all.
CommitRun(r, outs) ==
    /\ salesData' = WholeBody(outs["sales"], runs[r].product, r)
    /\ forecast' = WholeBody(outs["forecast"], runs[r].product, r)
    /\ segments' = PropertyOf(outs["segments"], runs[r].product, r)
    /\ insights' = PropertyOf(outs["insights"], runs[r].product, r)

\* The second Promise.all of run r fulfils: the four bodies decoded, the four
\* setters run, then the finally block.
DecodeSettle(r, outs) ==
    /\ runs[r].st = "decoding"
    /\ CommitRun(r, outs)
    /\ runs' = [runs EXCEPT ![r] = DoneRun]
    /\ loading' = FALSE
    /\ UNCHANGED agentVars
    /\ UNCHANGED <<searchResults, selectedProduct, nRuns,
                   searches, nSearches, searchOutcome, calls>>

\* One of the four json() calls of run r rejects (a body that is not JSON):
\* the second Promise.all rejects and the catch block runs.
DecodeFail(r) ==
    /\ runs[r].st = "decoding"
    /\ RunCaught(r)

\* ------------------------------------------ one selection, response by response

\* The order of the fetches in the array handed to the first Promise.all.
IssueOrder == <<"sales", "forecast", "segments", "insights">>

\* The fetch of run r to endpoint e yields a Response of the given kind: as
\* FetchRespond, with the arrival recorded.
FetchArrive(r, e, kind) ==
    /\ runs[r].st = "fetching"
    /\ runs[r].awaiting > 0
    /\ e \in FetchesOf(runs[r].product)
    /\ \A i \in 1..Len(runs[r].arrived) : runs[r].arrived[i].e # e
    /\ runs' = [runs EXCEPT ![r].arrived = Append(@, [e |-> e, kind |-> kind]),
                            ![r].awaiting = @ - 1,
                            ![r].st = IF runs[r].awaiting = 1
                                      THEN "decoding" ELSE "fetching"]
    /\ UNCHANGED agentVars
    /\ UNCHANGED <<searchResults, selectedProduct, salesData,
                   forecast, segments, insights, loading, nRuns, searches,
                   nSearches, searchOutcome, calls>>

\* Mutant: the array of results is in order of arrival, and is destructured
\* as [salesResponse, forecastResponse, segmentsResponse, insightsResponse]
\* all the same.
Received_InArrivalOrder(arrived) ==
    [e \in Endpoints |->
        arrived[CHOOSE i \in 1..Len(IssueOrder) : IssueOrder[i] = e].kind]

\* What the destructuring of the Promise.all results binds to each endpoint's
\* name: Promise.all fulfils with the values in the order of the promises it
\* was given, so each name gets the response of its own fetch.
Received(arrived) ==
    [e \in Endpoints |->
        arrived[CHOOSE i \in 1..Len(arrived) : arrived[i].e = e].kind]

\* DecodeSettle for a run whose arrivals were recorded: the bodies decoded are
\* those of the responses received, and the finished run keeps its record.
DecodeArrived(r) ==
    /\ runs[r].st = "decoding"
    /\ Len(runs[r].arrived) = Len(IssueOrder)
    /\ CommitRun(r, Received(runs[r].arrived))
    /\ runs' = [runs EXCEPT ![r].st = "done"]
    /\ loading' = FALSE
    /\ UNCHANGED agentVars
    /\ UNCHANGED <<searchResults, selectedProduct, nRuns,
                   searches, nSearches, searchOutcome, calls>>

\* A selection made while no other selection's run is in flight.
OrderSelect(p) ==
    /\ LiveRuns = {}
    /\ HandleProductSelect(p)

\* ------------------------------------------------ the insights text of a run

\* JSON bodies an /insights response may carry: Markdown text (here with a
\* trailing blank), the empty text, text that reads as a number, the error body
\* of a non-2xx response (it has no insights property), and null.
InsightsBodies ==
    {Body(PlainObject, [insights |-> Str(<<"*", "*", "u", "p", "*", "*", " ">>)]),
     Body(PlainObject, [insights |-> Str(<<>>)]),
     Body(PlainObject, [insights |-> Str(<<"7">>)]),
     Body(PlainObject, [insights |-> Undefined]),
     Body(Null, <<>>)}

\* Mutant: the text is trimmed on its way to the view.
InsightsValue_Trimmed(data) == Str(Trim(ToText(Get(data, "insights"))))

\* insightsData.insights
InsightsValue(data) == Get(data, "insights")

\* What setInsights is handed, with the product, the run and the body it was
\* read from (history).
InsightsField(data, p, r) ==
    [k |-> IF InsightsValue(data).t = "undefined" THEN "undefined" ELSE "data",
     product |-> p, run |-> r, val |-> InsightsValue(data), raw |-> data]

\* DecodeSettle with the decoded body of the /insights response in hand:
\* reading .insights off the body null throws, and the catch block runs.
DecodeInsights(r, outs, data) ==
    /\ runs[r].st = "decoding"
    /\ IF Throws(data)
       THEN RunCaught(r)
       ELSE /\ salesData' = WholeBody(outs["sales"], runs[r].product, r)
            /\ forecast' = WholeBody(outs["forecast"], runs[r].product, r)
            /\ segments' = PropertyOf(outs["segments"], runs[r].product, r)
            /\ insights' = InsightsField(data, runs[r].product, r)
            /\ runs' = [runs EXCEPT ![r] = DoneRun]
            /\ loading' = FALSE
            /\ UNCHANGED agentVars
            /\ UNCHANGED <<searchResults, selectedProduct, nRuns,
                           searches, nSearches, searchOutcome, calls>>

NextHome ==
    \/ HandleSearch
    \/ \E s \in 1..MaxSearches, o \in SearchOutcomes :
         \E res \in (IF o = "ok" THEN BackendResults ELSE {<<>>}) :
           SearchSettle(s, o, res)
    \/ \E p \in Products : HandleProductSelect(p)
    \/ \E r \in RunIds : FetchRespond(r)
    \/ \E r \in RunIds : FetchFail(r)
    \/ \E r \in RunIds, outs \in [Endpoints -> ResponseKinds] : DecodeSettle(r, outs)
    \/ \E r \in RunIds : DecodeFail(r)

\* ------------------------------------------------- agent: normalisation

\* Mutant: the value is wrapped without String().
AsList_NoCoercion(x) ==
    IF x.t = "array" THEN x.a
    ELSE IF Truthy(x) THEN <<x>> ELSE <<>>

\* Array.isArray(x) ? x : (x ? [String(x)] : [])
AsList(x) ==
    IF x.t = "array" THEN x.a
    ELSE IF Truthy(x) THEN <<Str(ToText(x))>> ELSE <<>>

\* Mutant: Number(x) || 0 in place of the typeof test.
AsConfidence_Coerced(x) ==
    IF x.t = "number" THEN x.n
    ELSE IF x.t = "boolean" /\ x.b THEN 1 ELSE 0

\* typeof x === 'number' ? x : 0
AsConfidence(x) == IF x.t = "number" THEN x.n ELSE 0

\* The object literal `normalized` of handleAgentQuery.
Normalized(data) ==
    [analysis |-> ToText(Coalesce(Get(data, "analysis"), Str(<<>>))),
     recommendations |-> AsList(Get(data, "recommendations")),
     confidence |-> AsConfidence(Get(data, "confidence")),
     next_steps |-> AsList(Get(data, "next_steps"))]

\* ------------------------------------------------------------ agent: inputs

T_ok == <<"o", "k">>
T_x == <<"x">>
T_high == <<"h", "i", "g", "h">>

\* Texts typed into the chat input.
Queries == {<<>>, <<" ">>, <<"w", "h", "y", " ">>}

AnalysisValues == {Undefined, Str(T_ok)}
ListValues ==
    {Undefined, Null, Str(<<>>), Str(T_x), Num(0), Num(5), Bool(FALSE), Bool(TRUE),
     PlainObject, Arr(<<>>), Arr(<<Str(<<"a">>), Str(<<"b">>)>>),
     Arr(<<Num(1), Null>>)}
ConfidenceValues ==
    {Undefined, Null, Str(T_high), Bool(TRUE), Num(0), Num(1), Num(2), Num(-1)}

NextStepValues ==
    {Undefined, Str(T_x), Num(0), Arr(<<Str(T_ok)>>), Arr(<<Num(1), Null>>)}

ObjectBody(an, re, co, ne) ==
    Body(PlainObject, [analysis |-> an, recommendations |-> re,
                       confidence |-> co, next_steps |-> ne])

\* JSON bodies that are no objects.
OtherBodies ==
    {Body(v, <<>>) : v \in {Null, Num(7), Str(T_x), Bool(FALSE), Arr(<<>>)}}

\* The JSON bodies a 2xx /agent/analyze response may carry: every analysis with
\* every recommendations value, every confidence with every next_steps value,
\* and the bodies that are no objects.
AnalyzeBodies ==
    {ObjectBody(an, re, Num(1), Undefined) :
        an \in AnalysisValues, re \in ListValues}
    \cup {ObjectBody(Str(T_ok), Str(T_x), co, ne) :
        co \in ConfidenceValues, ne \in NextStepValues}
    \cup OtherBodies

\* How an agent request can end.
\*   "ok"       2xx and a JSON body
\*   "http"     a non-2xx response
\*   "network"  fetch rejects
\*   "nojson"   2xx whose body is not JSON (response.json() rejects)
AgentOutcomes == {"ok", "http", "network", "nojson"}

\* ------------------------------------------------------------- agent: query

\* The chat input's onChange; the input is rendered on the chat tab.
SetQuery(q) ==
    /\ productId # NoProduct
    /\ activeTab = "chat"
    /\ q # agentQuery
    /\ agentQuery' = q
    /\ UNCHANGED <<productId, agentResponse, suggestions, agentLoading,
                   activeTab, analyzeReqs, suggestReqs, lastAnalyze, calls>>
    /\ UNCHANGED homeVars

\* handleAgentQuery up to its await: nothing for a blank query, else
\* setLoading(true) and one POST /agent/analyze.
HandleAgentQuery ==
    /\ IF Trim(agentQuery) = <<>>
       THEN UNCHANGED <<agentLoading, analyzeReqs, calls>>
       ELSE /\ calls["analyze"] < MaxQueries
            /\ agentLoading' = TRUE
            /\ analyzeReqs' = analyzeReqs \cup
                   {[req |-> calls["analyze"] + 1, product |-> productId]}
            /\ calls' = [calls EXCEPT !["analyze"] = @ + 1]
    /\ UNCHANGED <<productId, agentQuery, agentResponse, suggestions,
                   activeTab, suggestReqs, lastAnalyze>>
    /\ UNCHANGED homeVars

\* The Send button: disabled={loading || !query.trim()}.
ClickSend ==
    /\ productId # NoProduct
    /\ activeTab = "chat"
    /\ ~agentLoading
    /\ Trim(agentQuery) # <<>>
    /\ HandleAgentQuery

\* The chat input's onKeyPress: Enter calls handleAgentQuery.
PressEnter ==
    /\ productId # NoProduct
    /\ activeTab = "chat"
    /\ HandleAgentQuery

\* What setAgentResponse is handed, with the request, the product and the body
\* it was made from (history).
Response(q, data) ==
    [k |-> "set", val |-> Normalized(data), req |-> q.req,
     product |-> q.product, raw |-> data]

\* Mutant: a request that failed is sent again.
AnalyzeSettle_Retrying(q, outcome, data) ==
    /\ q \in analyzeReqs
    /\ agentResponse' = IF outcome = "ok" /\ ~Throws(data)
                        THEN Response(q, data) ELSE agentResponse
    /\ lastAnalyze' = [req |-> q.req, kind |-> outcome, body |-> data]
    /\ IF outcome \in {"http", "network"} /\ calls["analyze"] < MaxQueries
       THEN /\ analyzeReqs' = (analyzeReqs \ {q}) \cup
                   {[req |-> calls["analyze"] + 1, product |-> q.product]}
            /\ calls' = [calls EXCEPT !["analyze"] = @ + 1]
            /\ agentLoading' = TRUE
       ELSE /\ analyzeReqs' = analyzeReqs \ {q}
            /\ calls' = calls
            /\ agentLoading' = FALSE
    /\ UNCHANGED <<productId, agentQuery, suggestions, activeTab, suggestReqs>>
    /\ UNCHANGED homeVars

\* The continuation of handleAgentQuery once its fetch has settled: for a 2xx
\* response the body is decoded and normalised, and setAgentResponse runs
\* unless that threw; the finally block clears loading.
AnalyzeSettle(q, outcome, data) ==
    /\ q \in analyzeReqs
    /\ analyzeReqs' = analyzeReqs \ {q}
    /\ agentResponse' = IF outcome = "ok" /\ ~Throws(data)
                        THEN Response(q, data) ELSE agentResponse
    /\ agentLoading' = FALSE
    /\ lastAnalyze' = [req |-> q.req, kind |-> outcome, body |-> data]
    /\ UNCHANGED <<productId, agentQuery, suggestions, activeTab, suggestReqs,
                   calls>>
    /\ UNCHANGED homeVars

\* ------------------------------------------------------- agent: suggestions

\* JSON bodies a 2xx /agent/suggestions response may carry.
SuggestionBodies ==
    {Body(PlainObject, [suggestions |-> Arr(<<Str(T_x)>>), priority |-> Str(T_high)]),
     Body(PlainObject, [suggestions |-> Undefined, priority |-> Undefined]),
     Body(Null, <<>>)}

\* loadSuggestions up to its await: setLoading(true), one GET
\* /agent/suggestions/{productId}.
LoadSuggestions ==
    /\ agentLoading' = TRUE
    /\ suggestReqs' = suggestReqs \cup
           {[req |-> calls["suggestions"] + 1, product |-> productId]}
    /\ calls' = [calls EXCEPT !["suggestions"] = @ + 1]

\* Mutant: the tab loads the suggestions on every click.
SuggestionsMissing_Always == TRUE

\* !suggestions
SuggestionsMissing == suggestions.k = "null" \/ ~Truthy(suggestions.raw.v)

\* The Chat Analysis tab button.
ClickChatTab ==
    /\ productId # NoProduct
    /\ activeTab # "chat"
    /\ activeTab' = "chat"
    /\ UNCHANGED <<productId, agentQuery, agentResponse, suggestions,
                   agentLoading, analyzeReqs, suggestReqs, lastAnalyze, calls>>
    /\ UNCHANGED homeVars

\* The Smart Suggestions tab button: setActiveTab('suggestions'), and
\* loadSuggestions() if there are no suggestions.
ClickSuggestionsTab ==
    /\ productId # NoProduct
    /\ activeTab' = "suggestions"
    /\ IF SuggestionsMissing
       THEN /\ calls["suggestions"] < MaxSuggestLoads
            /\ LoadSuggestions
       ELSE UNCHANGED <<agentLoading, suggestReqs, calls>>
    /\ UNCHANGED <<productId, agentQuery, agentResponse, suggestions,
                   analyzeReqs, lastAnalyze>>
    /\ UNCHANGED homeVars

\* What setSuggestions is handed: the decoded body as it is (the body null is
\* the state's initial value), with the request and the product it was
\* fetched for (history).
Suggested(q, data) ==
    IF data.v.t = "null" THEN NoSuggestions
    ELSE [k |-> "set", raw |-> data, req |-> q.req, product |-> q.product]

\* The continuation of loadSuggestions once its fetch has settled: for a 2xx
\* response setSuggestions(data); the finally block clears loading.
SuggestSettle(q, outcome, data) ==
    /\ q \in suggestReqs
    /\ suggestReqs' = suggestReqs \ {q}
    /\ suggestions' = IF outcome = "ok" THEN Suggested(q, data) ELSE suggestions
    /\ agentLoading' = FALSE
    /\ UNCHANGED <<productId, agentQuery, agentResponse, activeTab,
                   analyzeReqs, lastAnalyze, calls>>
    /\ UNCHANGED homeVars

\* The render of the suggestions tab once suggestions are held and nothing is
\* loading: suggestions.priority.toUpperCase() and suggestions.suggestions.map
\* throw a TypeError when the property is no string, or no array.
SuggestionsRenderThrows ==
    /\ activeTab = "suggestions"
    /\ ~agentLoading
    /\ ~SuggestionsMissing
    /\ \/ Get(suggestions.raw, "priority").t # "string"
       \/ Get(suggestions.raw, "suggestions").t # "array"

\* Home renders <AIAgent productId={selectedProduct.product_id}> without a key:
\* a new selection changes the prop and keeps the component's state.
ProductChange(p) ==
    /\ productId # NoProduct
    /\ p # productId
    /\ productId' = p
    /\ UNCHANGED <<agentQuery, agentResponse, suggestions, agentLoading,
                   activeTab, analyzeReqs, suggestReqs, lastAnalyze, calls>>
    /\ UNCHANGED homeVars

\* Bodies the agent specification draws from.
SampleBodies ==
    {ObjectBody(Str(T_ok), Str(T_x), Num(1), Undefined),
     ObjectBody(Undefined, Undefined, Str(T_high), Undefined),
     Body(Null, <<>>)}

SettleAnalyze(bodies) ==
    \E q \in analyzeReqs, o \in AgentOutcomes :
        \E data \in (IF o = "ok" THEN bodies ELSE {Body(Undefined, <<>>)}) :
            AnalyzeSettle(q, o, data)

SettleSuggest ==
    \E q \in suggestReqs, o \in AgentOutcomes :
        \E data \in (IF o = "ok" THEN SuggestionBodies ELSE {Body(Undefined, <<>>)}) :
            SuggestSettle(q, o, data)

\* The AIAgent component mounted for some product.
InitAgent ==
    /\ InitHome
    /\ productId \in Products
    /\ InitAgentState

NextAgent ==
    \/ \E q \in Queries : SetQuery(q)
    \/ ClickSend
    \/ PressEnter
    \/ SettleAnalyze(SampleBodies)
    \/ ClickChatTab
    \/ ClickSuggestionsTab
    \/ SettleSuggest
    \/ \E p \in Products : ProductChange(p)

SpecAgent == InitAgent /\ [][NextAgent]_vars

\* The chat flow alone, over every body of AnalyzeBodies.
NextNormalize ==
    \/ \E q \in Queries : SetQuery(q)
    \/ ClickSend
    \/ PressEnter
    \/ SettleAnalyze(AnalyzeBodies)

SpecNormalize == InitAgent /\ [][NextNormalize]_vars

Spec == Init /\ [][NextHome]_vars

\* The suggestions flow alone.
NextSuggest ==
    \/ ClickChatTab
    \/ ClickSuggestionsTab
    \/ SettleSuggest
    \/ \E p \in Products : ProductChange(p)

SpecSuggest == InitAgent /\ [][NextSuggest]_vars

\* The page after one search fell back to the two mock products.
InitOrder ==
    /\ searchResults = mockResults
    /\ selectedProduct = NoProduct
    /\ salesData = EmptyField
    /\ forecast = EmptyField
    /\ segments = EmptyField
    /\ insights = EmptyField
    /\ loading = FALSE
    /\ runs = [r \in RunIds |-> IdleRun]
    /\ nRuns = 0
    /\ searches = {}
    /\ nSearches = 1
    /\ searchOutcome = "network"
    /\ calls = [e \in AllEndpoints |-> IF e = "search" THEN 1 ELSE 0]
    /\ productId = NoProduct
    /\ InitAgentState

\* Selections made one at a time, their responses taken one by one.
NextOrder ==
    \/ \E p \in Products : OrderSelect(p)
    \/ \E r \in RunIds, e \in Endpoints, k \in ResponseKinds : FetchArrive(r, e, k)
    \/ \E r \in RunIds : FetchFail(r)
    \/ \E r \in RunIds : DecodeArrived(r)
    \/ \E r \in RunIds : DecodeFail(r)

SpecOrder == InitOrder /\ [][NextOrder]_vars

\* Selections made one at a time, with the body of the /insights response.
NextInsights ==
    \/ \E p \in Products : OrderSelect(p)
    \/ \E r \in RunIds : FetchRespond(r)
    \/ \E r \in RunIds : FetchFail(r)
    \/ \E r \in RunIds, outs \in [Endpoints \ {"insights"} -> ResponseKinds],
          data \in InsightsBodies : DecodeInsights(r, outs, data)
    \/ \E r \in RunIds : DecodeFail(r)

SpecInsights == InitOrder /\ [][NextInsights]_vars

\* The page with one search more than Spec has: a search made while the
\* results of an earlier one are on screen can be overlapped by a third.
NextSearch ==
    \/ HandleSearchWithin(MaxSearchRounds)
    \/ \E s \in 1..MaxSearchRounds, o \in SearchOutcomes :
         \E res \in (IF o = "ok" THEN BackendResults ELSE {<<>>}) :
           SearchSettle(s, o, res)
    \/ \E p \in Products : HandleProductSelect(p)
    \/ \E r \in RunIds : FetchRespond(r)
    \/ \E r \in RunIds : FetchFail(r)
    \/ \E r \in RunIds, outs \in [Endpoints -> ResponseKinds] : DecodeSettle(r, outs)
    \/ \E r \in RunIds : DecodeFail(r)

SpecSearch == Init /\ [][NextSearch]_vars

\* Both components, each on its own: the page while no agent is mounted, and
\* the agent mounted for a product.
InitCalls == Init \/ InitAgent

NextCalls ==
    \/ productId = NoProduct /\ NextHome
    \/ NextAgent

SpecCalls == InitCalls /\ [][NextCalls]_vars

\* ------------------------------------------------------- the analytics view

ViewFields == <<salesData, forecast, segments, insights>>
ShownFields == {i \in 1..4 : ViewFields[i].k # "empty"}
FieldsFrom(r) == {i \in 1..4 : ViewFields[i].k = "data" /\ ViewFields[i].run = r}

\* Run r leaves the state by its setters in this step.
Commits(r) ==
    /\ runs[r].st = "decoding"
    /\ runs'[r].st = "done"
    /\ salesData'.run = r

\* C1: results that arrive for a product the user has meanwhile left are
\* dropped: a run writes the analytics view only while its product is still
\* the selected one.
C1_StaleResultsDiscarded ==
    [][\A r \in RunIds : Commits(r) => runs[r].product = selectedProduct]_vars

\* C2: when the last outstanding fetch of a run fails at transport level, the
\* three fetches that did yield a response are still committed: at least three
\* fields of the view then come from that run.
C2_PartialFailureCommitsTheRest ==
    [][\A r \in RunIds :
          (runs[r].st = "fetching" /\ runs[r].awaiting = 1 /\ runs'[r].st = "done")
              => Cardinality(FieldsFrom(r))' >= 3]_vars

\* C3: selecting the product whose run is still in flight issues no analytics
\* request.
C3_ReselectIssuesNoRequest ==
    [][\A p \in Products :
          ((\E r \in LiveRuns : runs[r].product = p)
              /\ nRuns' = nRuns + 1 /\ selectedProduct' = p)
              => calls' = calls]_vars

\* C4: after a /search call that ended in a non-2xx response or a network
\* failure, the search results are exactly the two fallback products, in
\* order.
C4_SearchFallback ==
    searchOutcome \in {"http", "network"}
        => searchResults = <<"nike_air_max_270", "adidas_ultraboost_22">>

C4_Witness ==
    /\ searchOutcome = "http"
    /\ searchResults = <<"nike_air_max_270", "adidas_ultraboost_22">>
    /\ searches = {}
    /\ nSearches = 2

\* C5: at most one /agent/analyze request is in flight at any time.
C5_OneQueryInFlight == Cardinality(analyzeReqs) <= 1

\* C6: while a /agent/suggestions request for the current product is in flight,
\* or suggestions for it are held, no further suggestions request is issued.
C6_SuggestionsFetchedOnce ==
    [][((\E q \in suggestReqs : q.product = productId)
           \/ (suggestions.k = "set" /\ suggestions.product = productId))
          => calls'["suggestions"] = calls["suggestions"]]_vars

\* C7: every analytics field the view shows was fetched for the selected
\* product.
C7_ViewBelongsToSelection ==
    \A i \in ShownFields : ViewFields[i].product = selectedProduct

\* The text the claim's examples expect of a value that is no array.
C8_Text(x) ==
    CASE x = Str(<<"x">>) -> <<"x">>
      [] x = Num(5) -> <<"5">>
      [] x = Bool(TRUE) -> <<"t", "r", "u", "e">>
      [] x = PlainObject ->
            <<"[", "o", "b", "j", "e", "c", "t", " ", "O", "b", "j", "e", "c", "t", "]">>

\* The values the conditional of the code takes for empty: absent, null, the
\* empty string, 0 and false.
C8_Empty(x) == x \in {Undefined, Null, Str(<<>>), Num(0), Bool(FALSE)}

C8_Raw == Get(agentResponse.raw, "recommendations")

\* C8: the recommendations of an exposed analysis are the raw array when the
\* raw value is an array, the one-element list of the raw value as text when
\* it is a non-empty value that is no array, and the empty list when it is
\* absent or null.  Non-empty is read as the code's conditional reads it: the
\* empty string, 0 and false count as empty, and give the empty list too.
C8_RecommendationsNormalized ==
    agentResponse.k = "set" =>
        /\ C8_Raw.t = "array" => agentResponse.val.recommendations = C8_Raw.a
        /\ (C8_Raw.t # "array" /\ ~C8_Empty(C8_Raw)) =>
               agentResponse.val.recommendations = <<Str(C8_Text(C8_Raw))>>
        /\ C8_Empty(C8_Raw) => agentResponse.val.recommendations = <<>>

C8_Witness ==
    /\ agentResponse.k = "set"
    /\ C8_Raw = Num(5)
    /\ agentResponse.val.recommendations = <<Str(<<"5">>)>>

\* C9: a 2xx response whose body is not null and whose confidence is no number
\* (a string, a boolean, null, or missing) is exposed as an analysis record with
\* confidence 0.
C9_BadConfidenceIsZero ==
    (/\ lastAnalyze.kind = "ok"
     /\ lastAnalyze.body.v.t # "null"
     /\ Get(lastAnalyze.body, "confidence").t # "number")
        => /\ agentResponse.k = "set"
           /\ agentResponse.req = lastAnalyze.req
           /\ agentResponse.val.confidence = 0

C9_Witness ==
    /\ lastAnalyze.kind = "ok"
    /\ Get(lastAnalyze.body, "confidence") = Str(<<"h", "i", "g", "h">>)
    /\ agentResponse.k = "set"
    /\ agentResponse.req = lastAnalyze.req
    /\ agentResponse.val.confidence = 0

\* C10: every 2xx response with a JSON body ends with the analysis record made
\* from that body being exposed.
C10_NormalizationTotal ==
    lastAnalyze.kind = "ok"
        => agentResponse.k = "set" /\ agentResponse.req = lastAnalyze.req

\* What the chat tab shows of the agent session: the analysis held, and the
\* loading flag.
C11_ChatView == <<agentResponse.k, agentLoading>>

\* C11: once an /agent/analyze request has ended in a network failure or a
\* non-2xx response and no request is in flight, the session shows a state
\* that differs from the one it shows when idle, and shows no analysis (the
\* only analysis it could show is that of an earlier query).
C11_FailureObservable ==
    (/\ lastAnalyze.kind \in {"http", "network"}
     /\ analyzeReqs = {}
     /\ suggestReqs = {})
        => /\ C11_ChatView # <<"null", FALSE>>
           /\ agentResponse.k # "set"

\* C12: the suggestions held are a record whose suggestions is a list of
\* strings and whose priority is a string, and rendering them does not throw.
C12_SuggestionsNormalized ==
    suggestions.k = "set" =>
        /\ Get(suggestions.raw, "priority").t = "string"
        /\ Get(suggestions.raw, "suggestions").t = "array"
        /\ \A i \in 1..Len(Get(suggestions.raw, "suggestions").a) :
               Get(suggestions.raw, "suggestions").a[i].t = "string"
        /\ ~SuggestionsRenderThrows

\* C13: the analysis and the suggestions the agent session holds were fetched
\* for the product it is mounted for.
C13_ResultsOfCurrentProduct ==
    /\ agentResponse.k = "set" => agentResponse.product = productId
    /\ suggestions.k = "set" => suggestions.product = productId

\* C14: no analytics field of the view holds the body of a non-2xx response.
C14_ErrorBodyNotCommitted ==
    \A i \in 1..4 : ViewFields[i].k # "errbody"

C16_SwitchIssuesNoRequest ==
    [][(/\ suggestions.k = "set"
        /\ suggestions.product = productId
        /\ activeTab' # activeTab)
          => calls'["suggestions"] = calls["suggestions"]]_vars

C16_Witness ==
    /\ suggestions.k = "set"
    /\ suggestions.product = productId
    /\ suggestReqs = {}
    /\ activeTab = "chat"
    /\ calls["suggestions"] = 1

\* The kind of the response run r received from endpoint e.
C17_KindOf(r, e) ==
    LET i == CHOOSE i \in 1..Len(runs[r].arrived) : runs[r].arrived[i].e = e
    IN  runs[r].arrived[i].kind

\* C17: from the step that selects a product on, all four requests of its run
\* are out (each has arrived or is awaited, and every endpoint has been called
\* once per selection); and the view a run commits gives each field the
\* response of its own endpoint, wherever in the order of arrival it came.
C17_OrderIndependent ==
    /\ \A e \in Endpoints : calls[e] = nRuns
    /\ \A r \in LiveRuns : Len(runs[r].arrived) + runs[r].awaiting = 4
    /\ \A r \in RunIds :
          (runs[r].st = "done" /\ Len(runs[r].arrived) = 4) =>
              /\ salesData = WholeBody(C17_KindOf(r, "sales"), runs[r].product, r)
              /\ forecast = WholeBody(C17_KindOf(r, "forecast"), runs[r].product, r)
              /\ segments = PropertyOf(C17_KindOf(r, "segments"), runs[r].product, r)
              /\ insights = PropertyOf(C17_KindOf(r, "insights"), runs[r].product, r)

C17_Witness ==
    \E r \in RunIds :
        /\ runs[r].st = "done"
        /\ Len(runs[r].arrived) = 4
        /\ runs[r].arrived[1] = [e |-> "insights", kind |-> "http"]
        /\ runs[r].arrived[4] = [e |-> "sales", kind |-> "ok"]
        /\ salesData = Field("data", runs[r].product, r)
        /\ insights = Field("undefined", runs[r].product, r)

\* The number of requests to endpoint e that this step issues.
C18_Issued(e) == calls'[e] - calls[e]

\* This step is the continuation of a request that has settled, well or not.
C18_Settles ==
    \/ searches' # searches /\ nSearches' = nSearches
    \/ runs' # runs /\ nRuns' = nRuns
    \/ \E q \in analyzeReqs : q \notin analyzeReqs'
    \/ \E q \in suggestReqs : q \notin suggestReqs'

\* C18: a step that starts a search issues one /search request and nothing
\* else; a step that starts a selection issues one request to each of the four
\* analytics endpoints and nothing else; a step issues at most one
\* /agent/analyze and at most one /agent/suggestions request, which is then in
\* flight; and the step taken when a request has settled, failed or not,
\* issues none.
C18_OneCallPerInvocation ==
    [][/\ \A e \in AllEndpoints : C18_Issued(e) \in {0, 1}
       /\ C18_Issued("search") = (IF nSearches' = nSearches + 1 THEN 1 ELSE 0)
       /\ \A e \in Endpoints :
             C18_Issued(e) = (IF nRuns' = nRuns + 1 THEN 1 ELSE 0)
       /\ C18_Issued("analyze") = Cardinality(analyzeReqs' \ analyzeReqs)
       /\ C18_Issued("suggestions") = Cardinality(suggestReqs' \ suggestReqs)
       /\ Cardinality({e \in {"search", "sales", "analyze", "suggestions"} :
                          C18_Issued(e) = 1}) <= 1
       /\ C18_Settles => calls' = calls]_vars

C18_Witness ==
    /\ lastAnalyze.kind = "network"
    /\ lastAnalyze.req = 2
    /\ calls["analyze"] = 2
    /\ analyzeReqs = {}
    /\ ~agentLoading

\* C19: every element of the recommendations and of the next_steps of the
\* analysis held is a string.
C19_ListsHoldText ==
    agentResponse.k = "set" =>
        /\ \A i \in 1..Len(agentResponse.val.recommendations) :
               agentResponse.val.recommendations[i].t = "string"
        /\ \A i \in 1..Len(agentResponse.val.next_steps) :
               agentResponse.val.next_steps[i].t = "string"

\* C20: the confidence of the analysis held lies between 0 and 1.
C20_ConfidenceInUnitInterval ==
    agentResponse.k = "set" =>
        agentResponse.val.confidence >= 0 /\ agentResponse.val.confidence <= 1

\* C22: the agent's loading flag is set whenever an /agent/analyze or an
\* /agent/suggestions request is in flight.
C22_AgentLoadingAccurate ==
    (analyzeReqs # {} \/ suggestReqs # {}) => agentLoading

\* C23: the page's loading flag is set whenever a search or a selection run
\* is in flight.
C23_LoadingAccurate ==
    (searches # {} \/ LiveRuns # {}) => loading

\* C21: the insights text the view holds is that of the /insights response it
\* was read from, character for character.
C21_InsightsPassedThrough ==
    (insights.k = "data" /\ insights.raw.props.insights.t = "string")
        => insights.val = insights.raw.props.insights

C21_Witness ==
    /\ insights.k = "data"
    /\ insights.raw.props.insights = Str(<<"*", "*", "u", "p", "*", "*", " ">>)
    /\ insights.val = Str(<<"*", "*", "u", "p", "*", "*", " ">>)
    /\ insights.product = selectedProduct

\* C24: when the response of a search is taken and sets the results, every
\* search submitted after it is still in flight: the results of a later search
\* are never replaced by those of an earlier one.
C24_LatestSearchShown ==
    [][\A s \in searches :
          s \notin searches' => \A t \in (s + 1)..nSearches : t \in searches]_vars

\* ------------------------------------------------------------- termination

\* The n-th /agent/analyze request, and the n-th /agent/suggestions request,
\* is in flight.
Analyzing(n) == \E q \in analyzeReqs : q.req = n
Suggesting(n) == \E q \in suggestReqs : q.req = n

\* Every request that was issued settles, one way or the other: the response
\* of a search, each fetch of a run and then its four json() calls, and the
\* response of each agent request.
RequestsSettle ==
    /\ \A s \in 1..MaxSearches :
          WF_vars(\E o \in SearchOutcomes :
                     \E res \in (IF o = "ok" THEN BackendResults ELSE {<<>>}) :
                        SearchSettle(s, o, res))
    /\ \A r \in RunIds : WF_vars(FetchRespond(r) \/ FetchFail(r))
    /\ \A r \in RunIds :
          WF_vars((\E outs \in [Endpoints -> ResponseKinds] : DecodeSettle(r, outs))
                     \/ DecodeFail(r))
    /\ \A n \in 1..MaxQueries :
          WF_vars(\E q \in analyzeReqs, o \in AgentOutcomes :
                     \E data \in (IF o = "ok" THEN SampleBodies
                                  ELSE {Body(Undefined, <<>>)}) :
                        q.req = n /\ AnalyzeSettle(q, o, data))
    /\ \A n \in 1..MaxSuggestLoads :
          WF_vars(\E q \in suggestReqs, o \in AgentOutcomes :
                     \E data \in (IF o = "ok" THEN SuggestionBodies
                                  ELSE {Body(Undefined, <<>>)}) :
                        q.req = n /\ SuggestSettle(q, o, data))

\* Both components, each on its own, the agent staying with its product.
NextLive ==
    \/ productId = NoProduct /\ NextHome
    \/ \E q \in Queries : SetQuery(q)
    \/ ClickSend
    \/ PressEnter
    \/ SettleAnalyze(SampleBodies)
    \/ ClickChatTab
    \/ ClickSuggestionsTab
    \/ SettleSuggest

\* Every request settling.
SpecLive == InitCalls /\ [][NextLive]_vars /\ RequestsSettle

\* C25: when every request settles, every search, every selection run, every
\* agent query and every suggestions load comes to its end, and a loading
\* flag that is set is cleared again.
C25_EveryOperationEnds ==
    /\ \A s \in 1..MaxSearches : (s \in searches) ~> (s \notin searches)
    /\ \A r \in RunIds : (r \in LiveRuns) ~> (runs[r].st = "done")
    /\ \A n \in 1..MaxQueries : Analyzing(n) ~> ~Analyzing(n)
    /\ \A n \in 1..MaxSuggestLoads : Suggesting(n) ~> ~Suggesting(n)
    /\ loading ~> ~loading
    /\ agentLoading ~> ~agentLoading

\* Two runs have ended, the second in its catch block, and the flag is clear.
C25_Witness ==
    /\ nRuns = 2
    /\ LiveRuns = {}
    /\ searches = {}
    /\ ~loading
    /\ \A i \in 1..4 : ViewFields[i].run = 1

====
